---- MODULE Spec2Model ----
(***************************************************************************)
(* Model of truley_python: the structured Logger of logger.py and          *)
(* console_logger.py (both built on the one process-wide loguru core),     *)
(* the trace context provider of tracing.py, and the stdlib bridge         *)
(* (InterceptHandler, intercept_stdlib_logging) of console_logger.py.      *)
(*                                                                         *)
(* Python values are records [c, s, n, d]: c the class name, s the text    *)
(* (a str's content, or what str() of an object returns), n an int's       *)
(* value, d the items of a dict.  A dict is a sequence of <<key, value>>   *)
(* pairs with unique keys, in insertion order.  None-or-string results     *)
(* use "" for None.                                                        *)
(***************************************************************************)
EXTENDS Integers, Sequences, FiniteSets, TLC

VARIABLES
    core,         \* loguru's process-wide handler table, in insertion order
    loggers,      \* the Logger objects constructed so far, by identity (index)
    sink,         \* sys.stderr: the sequence of write() calls' arguments
    last,         \* the most recent level-method call: its inputs and outcome
    initialized,  \* tracing._initialized
    otel_service, \* the service name tracing registered ("" = none)
    endpoint,     \* environment variable OTEL_EXPORTER_OTLP_ENDPOINT
    span,         \* the current OpenTelemetry span's context
    chan,         \* stdlib logging: each channel's handlers, level, propagate
    ihandlers,    \* the InterceptHandler objects created so far, by identity
    named,        \* the channel names attach calls have been given so far
    rec,          \* the most recent stdlib record and whom it was delivered to
    thr,          \* per thread: position inside a level-method call
    lock          \* loguru handler lock: the thread holding it, or 0

vars == <<core, loggers, sink, last, initialized, otel_service, endpoint, span,
          chan, ihandlers, named, rec, thr, lock>>

logVars    == <<core, loggers, sink, last>>
traceVars  == <<initialized, otel_service, endpoint, span>>
bridgeVars == <<chan, ihandlers, named, rec>>
thrVars    == <<thr, lock>>

----------------------------------------------------------------------------
(* Bounds of the model *)

MaxLoggers == 2
MaxSink == 1
MaxAttach == 2
MaxThreads == 2

----------------------------------------------------------------------------
(* Python values and dicts *)

V(c, s, n, d) == [c |-> c, s |-> s, n |-> n, d |-> d]
StrV(s)  == V("str", s, 0, <<>>)
IntV(n)  == V("int", "", n, <<>>)
NoneV    == V("NoneType", "", 0, <<>>)
ObjV(s)  == V("Widget", s, 0, <<>>)
ExcV(s)  == V("ValueError", s, 0, <<>>)
DictV(d) == V("dict", "", 0, d)

ExceptionClasses == {"ValueError"}

Keys(d) == {d[i][1] : i \in 1..Len(d)}
Has(d, k) == k \in Keys(d)
Get(d, k) == d[CHOOSE i \in 1..Len(d) : d[i][1] = k][2]
Put(d, k, v) ==
    IF Has(d, k)
    THEN [i \in 1..Len(d) |-> IF d[i][1] = k THEN <<k, v>> ELSE d[i]]
    ELSE Append(d, <<k, v>>)
Without(d, k) == SelectSeq(d, LAMBDA p : p[1] # k)

RECURSIVE PutAll(_, _)
PutAll(d, e) ==
    IF e = <<>> THEN d ELSE PutAll(Put(d, Head(e)[1], Head(e)[2]), Tail(e))

SetDefault(d, k, v) == IF Has(d, k) THEN d ELSE Append(d, <<k, v>>)

\* str(value), as f"{value}" and json's default=str obtain it
Str(v) ==
    CASE v.c = "str"      -> v.s
      [] v.c = "int"      -> ToString(v.n)
      [] v.c = "NoneType" -> "None"
      [] v.c = "dict"     -> "{...}"
      [] OTHER            -> v.s

----------------------------------------------------------------------------
(* Levels *)

LevelStr == {"debug", "verbose", "info", "warn", "error", "fatal"}

\* str.upper() on the six level strings
Upper == [debug |-> "DEBUG", verbose |-> "VERBOSE", info |-> "INFO",
          warn |-> "WARN", error |-> "ERROR", fatal |-> "FATAL"]

\* loguru's level numbers for the names the code passes to it
LoguruNo == [DEBUG |-> 10, INFO |-> 20, WARNING |-> 30, ERROR |-> 40,
             CRITICAL |-> 50]

\* str.lower() on loguru's level names
Lower == [DEBUG |-> "debug", INFO |-> "info", WARNING |-> "warning",
          ERROR |-> "error", CRITICAL |-> "critical"]

\* Logger.__init__: the level string handed to loguru's add()
level_upper(level) ==
    LET u == Upper[level] IN
    IF u = "WARN" THEN "WARNING"
    ELSE IF u = "FATAL" THEN "CRITICAL"
    ELSE IF u = "VERBOSE" THEN "DEBUG"
    ELSE u

\* the loguru level each level method passes to _log
MethodLevel(method) ==
    CASE method = "debug"   -> "DEBUG"
      [] method = "verbose" -> "DEBUG"
      [] method = "info"    -> "INFO"
      [] method = "warn"    -> "WARNING"
      [] method = "error"   -> "ERROR"
      [] method = "fatal"   -> "CRITICAL"

----------------------------------------------------------------------------
(* Record Formatter *)

\* _serialize's level_map.get(level_name, level_name)
level_map(level_name) ==
    CASE level_name = "trace"    -> "debug"
      [] level_name = "debug"    -> "debug"
      [] level_name = "info"     -> "info"
      [] level_name = "success"  -> "info"
      [] level_name = "warning"  -> "warn"
      [] level_name = "error"    -> "error"
      [] level_name = "critical" -> "fatal"
      [] OTHER                   -> level_name

\* JSON values are records [j, s, n, m]: m the members of an object
JStr(s) == [j |-> "string", s |-> s, n |-> 0, m |-> <<>>]
JNum(n) == [j |-> "number", s |-> "", n |-> n, m |-> <<>>]
JNull   == [j |-> "null", s |-> "", n |-> 0, m |-> <<>>]
JObj(m) == [j |-> "object", s |-> "", n |-> 0, m |-> m]

\* json.dumps of a value that holds no dict; default=str for other classes
dumps_scalar(v) ==
    CASE v.c = "str"      -> JStr(v.s)
      [] v.c = "int"      -> JNum(v.n)
      [] v.c = "NoneType" -> JNull
      [] OTHER            -> JStr(Str(v))

\* json.dumps(value, default=str)
dumps_value(v) ==
    IF v.c = "dict"
    THEN JObj([i \in 1..Len(v.d) |-> <<v.d[i][1], dumps_scalar(v.d[i][2])>>])
    ELSE dumps_scalar(v)

\* json.dumps(output, ensure_ascii=False, default=str): the object's members
json_dumps(output) ==
    [i \in 1..Len(output) |-> <<output[i][1], dumps_value(output[i][2])>>]

\* json.loads of a value that holds no object
loads_scalar(jv) ==
    CASE jv.j = "string" -> StrV(jv.s)
      [] jv.j = "number" -> IntV(jv.n)
      [] OTHER           -> NoneV

\* json.loads of one value
loads_value(jv) ==
    IF jv.j = "object"
    THEN DictV([i \in 1..Len(jv.m) |-> <<jv.m[i][1], loads_scalar(jv.m[i][2])>>])
    ELSE loads_scalar(jv)

\* json.loads of a line _serialize produced: a dict
json_loads(doc) ==
    [i \in 1..Len(doc) |-> <<doc[i][1], loads_value(doc[i][2])>>]

\* _serialize(record): the members of the JSON line
_serialize(record) ==
    LET extra == record.extra
        level_name == Lower[record.level]
        output == << <<"level", StrV(level_map(level_name))>>,
                     <<"time", IntV(record.time \div 1000)>>,
                     <<"msg", StrV(record.message)>>,
                     <<"service", IF Has(extra, "service")
                                  THEN Get(extra, "service")
                                  ELSE StrV("unknown")>> >>
    IN json_dumps(PutAll(output, Without(extra, "service")))

\* the lines _format_pretty appends for one extra field, as <<label, text>>
pretty_field(key, value) ==
    IF key = "error" /\ value.c = "dict"
    THEN << <<"error.type", IF Has(value.d, "type")
                            THEN Str(Get(value.d, "type")) ELSE "Unknown">>,
            <<"error.message", IF Has(value.d, "message")
                               THEN Str(Get(value.d, "message")) ELSE "">> >>
         \o (IF Has(value.d, "stack") /\ Str(Get(value.d, "stack")) # ""
             THEN << <<"error.stack:", "">>,
                     <<"", Str(Get(value.d, "stack"))>> >>
             ELSE <<>>)
    ELSE << <<key, Str(value)>> >>

RECURSIVE pretty_lines(_)
pretty_lines(extra) ==
    IF extra = <<>> THEN <<>>
    ELSE pretty_field(Head(extra)[1], Head(extra)[2]) \o pretty_lines(Tail(extra))

\* the first line's level: record["level"].name.upper()
pretty_level(record) == record.level

\* _format_pretty(record): the head line's parts and the field lines
_format_pretty(record) ==
    [head  |-> [ts |-> record.time \div 1000000,
                level |-> pretty_level(record),
                msg |-> record.message],
     lines |-> pretty_lines(record.extra)]

NoHead == [ts |-> 0, level |-> "", msg |-> ""]

\* _sink_json writing the serialized text without its newline
sink_json_no_newline(record) ==
    [mode |-> "json", doc |-> _serialize(record), head |-> NoHead,
     lines |-> <<>>, nl |-> FALSE]

\* the argument of _sink_json's one sys.stderr.write call
_sink_json(record) ==
    [mode |-> "json", doc |-> _serialize(record), head |-> NoHead,
     lines |-> <<>>, nl |-> TRUE]

\* the argument of _sink_pretty's one sys.stderr.write call
_sink_pretty(record) ==
    LET f == _format_pretty(record) IN
    [mode |-> "pretty", doc |-> <<>>, head |-> f.head, lines |-> f.lines,
     nl |-> TRUE]

----------------------------------------------------------------------------
(* Trace Context Provider (tracing.py) *)

TraceIdWidth == 32
SpanIdWidth == 16

HexDigit == <<"0", "1", "2", "3", "4", "5", "6", "7",
              "8", "9", "a", "b", "c", "d", "e", "f">>

\* format(n, "0<w>x"): lowercase hex, zero-padded to w characters
RECURSIVE HexPad(_, _)
HexPad(n, w) ==
    IF w = 0 /\ n = 0 THEN ""
    ELSE HexPad(n \div 16, IF w = 0 THEN 0 ELSE w - 1) \o HexDigit[(n % 16) + 1]

NoContext == [some |-> FALSE, trace_id |-> "", span_id |-> ""]

NoSpan      == [present |-> FALSE, trace_id |-> 0, span_id |-> 0]
InvalidSpan == [present |-> TRUE, trace_id |-> 0, span_id |-> 0]

\* SpanContext.is_valid: both identifiers non-zero
is_valid(ctx) == ctx.trace_id # 0 /\ ctx.span_id # 0

is_tracing_enabled == initialized

get_current_trace_context ==
    IF ~initialized THEN NoContext
    ELSE IF ~span.present THEN NoContext
    ELSE IF ~is_valid(span) THEN NoContext
    ELSE [some |-> TRUE,
          trace_id |-> HexPad(span.trace_id, TraceIdWidth),
          span_id |-> HexPad(span.span_id, SpanIdWidth)]

\* the service name tracing registered, "" when there is none
get_service_name == otel_service

\* init_tracing(service_name), on the path that initializes: not yet
\* initialized and the endpoint variable set (OTEL_SERVICE_NAME unset)
init_tracing(service_name) ==
    /\ ~initialized
    /\ endpoint # ""
    /\ initialized' = TRUE
    /\ otel_service' = (IF service_name # "" THEN service_name ELSE "unknown")
    /\ UNCHANGED <<endpoint, span>>
    /\ UNCHANGED <<logVars, bridgeVars, thrVars>>

----------------------------------------------------------------------------
(* Logger (logger.py and console_logger.py) *)

\* Logger.__init__.  variant "logger" is logger.py's class, which is given the
\* service; variant "console" is console_logger.py's, which asks tracing.
\* remove() empties the shared core and add() installs the one new handler.
\* The object keeps only the service; level and pretty are recorded beside it
\* as the arguments this Logger was constructed with.
NewLogger(variant, service, level, pretty) ==
    [variant |-> variant,
     service |-> IF variant = "console"
                 THEN (IF get_service_name # "" THEN get_service_name
                       ELSE "unknown")
                 ELSE service,
     level |-> level, pretty |-> pretty]

NewHandler(level, pretty) ==
    [sink |-> IF pretty THEN "pretty" ELSE "json",
     levelno |-> LoguruNo[level_upper(level)]]

Construct(variant, service, level, pretty) ==
    /\ Len(loggers) < MaxLoggers
    /\ loggers' = Append(loggers, NewLogger(variant, service, level, pretty))
    /\ core' = Append(<<>>, NewHandler(level, pretty))
    /\ UNCHANGED <<sink, last>>
    /\ UNCHANGED <<traceVars, bridgeVars, thrVars>>

\* Python's argument binding and _log's error handling: the call raises
\* TypeError when a named field collides with a positional parameter of the
\* level method or of _log, and AttributeError when the value bound to error
\* is neither None nor an exception (it has no __traceback__)
CallRaises(kwargs) ==
    \/ Keys(kwargs) \cap {"self", "msg", "level"} # {}
    \/ /\ Has(kwargs, "error")
       /\ Get(kwargs, "error").c \notin (ExceptionClasses \cup {"NoneType"})

\* the trace keys assigned instead of set by default
inject_trace_overwrite(kwargs, ctx) ==
    Put(Put(kwargs, "trace_id", StrV(ctx.trace_id)),
        "span_id", StrV(ctx.span_id))

\* kwargs.setdefault of the two trace keys (console_logger.py only)
inject_trace(kwargs, ctx) ==
    SetDefault(SetDefault(kwargs, "trace_id", StrV(ctx.trace_id)),
               "span_id", StrV(ctx.span_id))

\* the ErrorDetail dict bound under "error"
error_detail(error) ==
    DictV(<< <<"type", StrV(error.c)>>,
             <<"message", StrV(Str(error))>>,
             <<"stack", StrV(error.c \o ": " \o Str(error))>> >>)

\* Logger._log up to bound.log: the loguru record of the call
_log(lg, level, msg, kwargs, now) ==
    LET error == IF Has(kwargs, "error") THEN Get(kwargs, "error") ELSE NoneV
        fields == Without(kwargs, "error")
        trace_ctx == IF lg.variant = "console" /\ is_tracing_enabled
                     THEN get_current_trace_context ELSE NoContext
        kw == IF trace_ctx.some THEN inject_trace(fields, trace_ctx) ELSE fields
        bound == PutAll(<< <<"service", StrV(lg.service)>> >>, kw)
        extra == IF error.c # "NoneType"
                 THEN Put(bound, "error", error_detail(error))
                 ELSE bound
    IN [level |-> level, time |-> now, message |-> msg, extra |-> extra]

\* what one handler of the core writes for a record
sink_write(h, record) ==
    IF h.sink = "pretty" THEN _sink_pretty(record)
    ELSE IF h.sink = "json" THEN _sink_json(record)
    ELSE [mode |-> "default", doc |-> <<>>,
          head |-> [ts |-> record.time \div 1000000, level |-> record.level,
                    msg |-> record.message],
          lines |-> <<>>, nl |-> TRUE]

\* bound.log(level, msg): every handler of the core whose threshold the
\* record's level reaches writes it, in insertion order
RECURSIVE emit(_, _)
emit(handlers, record) ==
    IF handlers = <<>> THEN <<>>
    ELSE (IF LoguruNo[record.level] >= Head(handlers).levelno
          THEN <<sink_write(Head(handlers), record)>> ELSE <<>>)
         \o emit(Tail(handlers), record)

\* the writes a level-method call makes (none when it raises)
call_writes(lg, method, msg, kwargs, now) ==
    IF CallRaises(kwargs) THEN <<>>
    ELSE emit(core, _log(lg, MethodLevel(method), msg, kwargs, now))

NoCall == [lg |-> 0, method |-> "", msg |-> "", kwargs |-> <<>>, time |-> 0,
           raised |-> FALSE, before |-> 0]

\* one call lg.<method>(msg, **kwargs) at clock reading now (microseconds)
LevelCall(i, method, msg, kwargs, now) ==
    /\ i \in 1..Len(loggers)
    /\ Len(sink) < MaxSink
    /\ sink' = sink \o call_writes(loggers[i], method, msg, kwargs, now)
    /\ last' = [lg |-> i, method |-> method, msg |-> msg, kwargs |-> kwargs,
                time |-> now, raised |-> CallRaises(kwargs),
                before |-> Len(sink)]
    /\ UNCHANGED <<core, loggers>>
    /\ UNCHANGED <<traceVars, bridgeVars, thrVars>>

----------------------------------------------------------------------------
(* Stdlib Bridge (console_logger.py) over the stdlib logging hierarchy *)

Channels == {"root", "a", "a.b", "a.b.c"}

Parent == [c \in Channels |->
              IF c = "a.b.c" THEN "a.b" ELSE IF c = "a.b" THEN "a" ELSE "root"]

\* the proper ancestors of a channel, the root included
RECURSIVE Ancestors(_)
Ancestors(c) ==
    IF c = "root" THEN {} ELSE {Parent[c]} \cup Ancestors(Parent[c])

\* a handler is named by a number: 0 is a handler the host application
\* installed itself, h > 0 is the InterceptHandler ihandlers[h]
ForeignHandler == 0

\* Logger.getEffectiveLevel: the first level set on the way to the root
RECURSIVE getEffectiveLevel(_)
getEffectiveLevel(c) ==
    IF chan[c].level # 0 \/ c = "root" THEN chan[c].level
    ELSE getEffectiveLevel(Parent[c])

\* Logger.callHandlers: the handlers a record logged on c is handed to
RECURSIVE callHandlers(_)
callHandlers(c) ==
    chan[c].handlers \o
        (IF chan[c].propagate /\ c # "root" THEN callHandlers(Parent[c])
         ELSE <<>>)

\* the table with debug as the default for a number outside it
bridge_level_default_debug(levelno) ==
    CASE levelno = 10 -> "debug"
      [] levelno = 20 -> "info"
      [] levelno = 30 -> "warn"
      [] levelno = 40 -> "error"
      [] levelno = 50 -> "fatal"
      [] OTHER        -> "debug"

\* InterceptHandler.emit's level_map.get(record.levelno, "info")
bridge_level(levelno) ==
    CASE levelno = 10 -> "debug"
      [] levelno = 20 -> "info"
      [] levelno = 30 -> "warn"
      [] levelno = 40 -> "error"
      [] levelno = 50 -> "fatal"
      [] OTHER        -> "info"

\* record.getMessage() of a record logged without arguments
getMessage(record) == record.msg

\* InterceptHandler.emit: the calls it makes on its bound Logger
InterceptHandler_emit(h, record) ==
    << [lg |-> ihandlers[h].truley_logger,
        method |-> bridge_level(record.levelno),
        msg |-> getMessage(record),
        kwargs |-> << <<"logger_name", StrV(record.name)>>,
                      <<"module", StrV(record.module)>> >>] >>

\* the Logger calls made for a record, one entry per handler it was handed to
RECURSIVE replay(_, _)
replay(handlers, record) ==
    IF handlers = <<>> THEN <<>>
    ELSE <<IF Head(handlers) = ForeignHandler THEN <<>>
           ELSE InterceptHandler_emit(Head(handlers), record)>>
         \o replay(Tail(handlers), record)

RECURSIVE Flatten(_)
Flatten(ss) == IF ss = <<>> THEN <<>> ELSE Head(ss) \o Flatten(Tail(ss))

RECURSIVE writes_of(_, _)
writes_of(calls, now) ==
    IF calls = <<>> THEN <<>>
    ELSE call_writes(loggers[Head(calls).lg], Head(calls).method,
                     Head(calls).msg, Head(calls).kwargs, now)
         \o writes_of(Tail(calls), now)

\* what logging.lastResort writes to stderr for a record no handler took
last_resort(record) ==
    IF record.levelno >= 30
    THEN << [mode |-> "lastResort", doc |-> <<>>,
             head |-> [ts |-> 0, level |-> "", msg |-> record.msg],
             lines |-> <<>>, nl |-> TRUE] >>
    ELSE <<>>

\* a named channel attached without propagate being cleared
attach_named_propagating(st, handler) ==
    [handlers |-> <<handler>>, level |-> 10, propagate |-> st.propagate]

\* the state intercept_stdlib_logging leaves a named channel in
attach_named(st, handler) ==
    [handlers |-> <<handler>>, level |-> 10, propagate |-> FALSE]

\* the state intercept_stdlib_logging leaves the root channel in
attach_root(st, handler) ==
    [handlers |-> <<handler>>, level |-> 10, propagate |-> st.propagate]

Range(q) == {q[i] : i \in 1..Len(q)}

\* intercept_stdlib_logging(truley_logger, loggers): names.none stands for
\* loggers=None, names.list is the list of channel names otherwise
intercept_stdlib_logging(i, names) ==
    /\ i \in 1..Len(loggers)
    /\ Len(ihandlers) < MaxAttach
    /\ ihandlers' = Append(ihandlers, [truley_logger |-> i])
    /\ LET handler == Len(ihandlers) + 1 IN
       chan' = [c \in Channels |->
                   IF names.none
                   THEN (IF c = "root" THEN attach_root(chan[c], handler)
                         ELSE chan[c])
                   ELSE (IF c \in Range(names.list)
                         THEN attach_named(chan[c], handler)
                         ELSE chan[c])]
    /\ named' = (IF names.none THEN named ELSE named \cup Range(names.list))
    /\ UNCHANGED rec
    /\ UNCHANGED <<logVars, traceVars, thrVars>>

\* a third-party library logs msg at levelno on channel name: the level
\* check, callHandlers, and every InterceptHandler's replay on its Logger
StdlibLog(name, levelno, msg, module, now) ==
    /\ levelno >= getEffectiveLevel(name)
    /\ Len(sink) < MaxSink
    /\ LET record == [name |-> name, levelno |-> levelno, msg |-> msg,
                      module |-> module]
           delivered == callHandlers(name)
           calls == replay(delivered, record)
           made == Flatten(calls)
       IN /\ rec' = [name |-> name, levelno |-> levelno, msg |-> msg,
                     module |-> module, delivered |-> delivered,
                     calls |-> calls]
          /\ sink' = sink \o (IF delivered = <<>> THEN last_resort(record)
                              ELSE writes_of(made, now))
          /\ last' = IF made = <<>> THEN last
                     ELSE LET c == made[Len(made)] IN
                          [lg |-> c.lg, method |-> c.method, msg |-> c.msg,
                           kwargs |-> c.kwargs, time |-> now,
                           raised |-> CallRaises(c.kwargs),
                           before |-> Len(sink)]
    /\ UNCHANGED <<core, loggers, chan, ihandlers, named>>
    /\ UNCHANGED <<traceVars, thrVars>>

----------------------------------------------------------------------------
(* Concurrent callers of one Logger.  A call runs in steps: the level       *)
(* method up to bound.log (Enter), the handler's lock taken (Acquire) or    *)
(* the record dropped below the threshold (Drop), the sink function and its *)
(* one sys.stderr.write (Write), the lock given back (Release).             *)

Threads == 1..MaxThreads

ThreadMsg(t) == "from-thread-" \o ToString(t)

IdleThread == [pc |-> "idle", method |-> "", kwargs |-> <<>>, raised |-> FALSE,
               record |-> [level |-> "DEBUG", time |-> 0, message |-> "",
                           extra |-> <<>>]]

\* the handler lock of loguru is free for thread t to take
lock_free(t) == lock = 0

\* the level method up to bound.log: binds the fields or raises
Enter(t, method, kwargs, now) ==
    /\ thr[t].pc = "idle"
    /\ thr' = [thr EXCEPT ![t] =
                 IF CallRaises(kwargs)
                 THEN [IdleThread EXCEPT !.pc = "done", !.method = method,
                                         !.kwargs = kwargs, !.raised = TRUE]
                 ELSE [pc |-> "log", method |-> method, kwargs |-> kwargs,
                       raised |-> FALSE,
                       record |-> _log(loggers[1], MethodLevel(method),
                                       ThreadMsg(t), kwargs, now)]]
    /\ UNCHANGED lock
    /\ UNCHANGED <<logVars, traceVars, bridgeVars>>

\* bound.log: no handler's threshold is reached, the call returns
Drop(t) ==
    /\ thr[t].pc = "log"
    /\ \A k \in 1..Len(core) : LoguruNo[thr[t].record.level] < core[k].levelno
    /\ thr' = [thr EXCEPT ![t].pc = "done"]
    /\ UNCHANGED lock
    /\ UNCHANGED <<logVars, traceVars, bridgeVars>>

\* bound.log: the handler takes its lock before it calls the sink
Acquire(t) ==
    /\ thr[t].pc = "log"
    /\ \E k \in 1..Len(core) : LoguruNo[thr[t].record.level] >= core[k].levelno
    /\ lock_free(t)
    /\ lock' = t
    /\ thr' = [thr EXCEPT ![t].pc = "locked"]
    /\ UNCHANGED <<logVars, traceVars, bridgeVars>>

\* the sink function: format the record and write it, newline included
Write(t) ==
    /\ thr[t].pc = "locked"
    /\ sink' = sink \o emit(core, thr[t].record)
    /\ thr' = [thr EXCEPT ![t].pc = "written"]
    /\ UNCHANGED <<core, loggers, last, lock>>
    /\ UNCHANGED <<traceVars, bridgeVars>>

\* the handler gives its lock back and the call returns
Release(t) ==
    /\ thr[t].pc = "written"
    /\ lock' = 0
    /\ thr' = [thr EXCEPT ![t].pc = "done"]
    /\ UNCHANGED <<logVars, traceVars, bridgeVars>>

----------------------------------------------------------------------------
(* Inputs *)

Msgs == {"hi"}
Times == {1234567}
Services == {"backend"}

KwPlain == { <<>>, << <<"level", StrV("x")>> >> }

KwRich ==
    { <<>>,
      << <<"trace_id", StrV("caller-trace")>> >>,
      << <<"span_id", StrV("caller-span")>> >>,
      << <<"trace_id", StrV("caller-trace")>>, <<"span_id", NoneV>> >>,
      << <<"tenantId", StrV("t-123")>>, <<"count", IntV(7)>> >>,
      << <<"time", StrV("noon")>> >>,
      << <<"service", StrV("other")>> >>,
      << <<"level", StrV("x")>> >>,
      << <<"msg", StrV("y")>> >>,
      << <<"error", StrV("oops")>> >>,
      << <<"error", ExcV("boom")>> >>,
      << <<"w", ObjV("<Widget 1>")>>, <<"cause", ExcV("boom")>> >> }

Spans == {NoSpan, InvalidSpan, [present |-> TRUE, trace_id |-> 171, span_id |-> 4660]}

NoRec == [name |-> "", levelno |-> 0, msg |-> "", module |-> "",
          delivered |-> <<>>, calls |-> <<>>]

LevelNos == {10, 20, 30, 35, 40, 50}

AttachArgs ==
    { [none |-> TRUE, list |-> <<>>],
      [none |-> FALSE, list |-> <<"a">>],
      [none |-> FALSE, list |-> <<"a.b">>],
      [none |-> FALSE, list |-> <<"a", "a.b">>],
      [none |-> FALSE, list |-> <<"a", "a">>] }

IdleBridge ==
    /\ chan = <<>>
    /\ ihandlers = <<>>
    /\ named = {}
    /\ rec = NoRec

IdleThreads ==
    /\ thr = <<>>
    /\ lock = 0

\* a fresh process: loguru's default handler, no Logger yet, tracing not
\* yet initialized
Init ==
    /\ core = << [sink |-> "default", levelno |-> 10] >>
    /\ loggers = <<>>
    /\ sink = <<>>
    /\ last = NoCall
    /\ initialized = FALSE
    /\ otel_service = ""
    /\ endpoint = "http://collector:4318"
    /\ span = NoSpan
    /\ IdleBridge
    /\ IdleThreads

Next ==
    \/ \E variant \in {"logger", "console"}, service \in Services,
          level \in LevelStr, pretty \in BOOLEAN :
          Construct(variant, service, level, pretty)
    \/ \E service_name \in {"", "analyzer"} : init_tracing(service_name)
    \/ \E i \in 1..MaxLoggers, method \in LevelStr, msg \in Msgs,
          kwargs \in KwPlain, now \in Times :
          LevelCall(i, method, msg, kwargs, now)

Spec == Init /\ [][Next]_vars

\* one Logger already constructed; the fields and the trace context vary
InitFields ==
    /\ initialized = FALSE
    /\ otel_service = ""
    /\ endpoint \in {"", "http://collector:4318"}
    /\ span \in Spans
    /\ \E variant \in {"logger", "console"}, service \in Services,
          level \in {"debug", "warn"}, pretty \in BOOLEAN :
          /\ loggers = << NewLogger(variant, service, level, pretty) >>
          /\ core = << NewHandler(level, pretty) >>
    /\ sink = <<>>
    /\ last = NoCall
    /\ IdleBridge
    /\ IdleThreads

NextFields ==
    \/ \E service_name \in {"", "backend"} : init_tracing(service_name)
    \/ \E i \in 1..MaxLoggers, method \in LevelStr, msg \in Msgs,
          kwargs \in KwRich, now \in Times :
          LevelCall(i, method, msg, kwargs, now)

SpecFields == InitFields /\ [][NextFields]_vars

\* one Logger already constructed and the collector endpoint configured;
\* the trace context varies and the callers pass or omit the trace keys
KwTrace ==
    { <<>>,
      << <<"trace_id", StrV("caller-trace")>> >>,
      << <<"span_id", StrV("caller-span")>> >>,
      << <<"trace_id", StrV("caller-trace")>>, <<"span_id", NoneV>> >>,
      << <<"tenantId", StrV("t-123")>>, <<"error", ExcV("boom")>> >> }

InitTrace ==
    /\ initialized = FALSE
    /\ otel_service = ""
    /\ endpoint = "http://collector:4318"
    /\ span \in Spans
    /\ \E variant \in {"logger", "console"}, pretty \in BOOLEAN :
          /\ loggers = << NewLogger(variant, "backend", "info", pretty) >>
          /\ core = << NewHandler("info", pretty) >>
    /\ sink = <<>>
    /\ last = NoCall
    /\ IdleBridge
    /\ IdleThreads

NextTrace ==
    \/ \E service_name \in {"", "backend"} : init_tracing(service_name)
    \/ \E i \in 1..MaxLoggers, method \in LevelStr, msg \in Msgs,
          kwargs \in KwTrace, now \in Times :
          LevelCall(i, method, msg, kwargs, now)

SpecTrace == InitTrace /\ [][NextTrace]_vars

----------------------------------------------------------------------------
(* Properties of the Logger *)

\* the ordering debug = verbose < info < warn < error < fatal
Severity == [debug |-> 1, verbose |-> 1, info |-> 2, warn |-> 3, error |-> 4,
             fatal |-> 5]

\* the canonical level a level method stands for
Canonical(method) == IF method = "verbose" THEN "debug" ELSE method

Called == last.lg # 0

\* the writes the most recent call appended to the sink
Written == SubSeq(sink, last.before + 1, Len(sink))

\* a field of the written record: present or not, and its value.  In JSON
\* mode the value is the parsed one; in pretty mode it is the line's text.
HasField(w, k) ==
    IF w.mode = "json" THEN Has(json_loads(w.doc), k)
    ELSE \E i \in 1..Len(w.lines) : w.lines[i][1] = k

FieldIs(w, k, v) ==
    IF w.mode = "json"
    THEN Has(json_loads(w.doc), k) /\ Get(json_loads(w.doc), k) = v
    ELSE /\ \E i \in 1..Len(w.lines) : w.lines[i] = <<k, Str(v)>>
         /\ Cardinality({i \in 1..Len(w.lines) : w.lines[i][1] = k}) = 1

\* what a value reads as after a JSON round trip: primitives unchanged,
\* other classes as their string form
Widen(v) ==
    IF v.c \in {"str", "int", "NoneType", "dict"} THEN v ELSE StrV(Str(v))

\* C1: for a Logger constructed with minimum level L and no Logger
\* constructed after it, every call to a level method writes exactly one
\* record when the method's severity is at or above L and nothing when it
\* is below L (each write is appended to the sink, so records keep call
\* order).
C1_FilterByLevel ==
    (Called /\ last.lg = Len(loggers)) =>
        Len(Written) =
            (IF Severity[last.method] >= Severity[loggers[last.lg].level]
             THEN 1 ELSE 0)

\* C2: in every record a console_logger.Logger emits, trace_id and span_id
\* are, each key on its own, the caller's value if the caller passed the
\* key, otherwise the provider's fixed-width hex value if tracing is enabled
\* and a valid span is current, otherwise absent.
C2_TraceFieldOf(w, kwargs, k, provided) ==
    IF Has(kwargs, k) THEN FieldIs(w, k, Widen(Get(kwargs, k)))
    ELSE IF is_tracing_enabled /\ span.present /\ is_valid(span)
    THEN FieldIs(w, k, StrV(provided))
    ELSE ~HasField(w, k)

C2_Step ==
    (sink' # sink /\ loggers[last'.lg].variant = "console") =>
        \A i \in (Len(sink) + 1)..Len(sink') :
            /\ C2_TraceFieldOf(sink'[i], last'.kwargs, "trace_id",
                               get_current_trace_context.trace_id)
            /\ C2_TraceFieldOf(sink'[i], last'.kwargs, "span_id",
                               get_current_trace_context.span_id)
            /\ get_current_trace_context.some =>
                  /\ Len(get_current_trace_context.trace_id) = 32
                  /\ Len(get_current_trace_context.span_id) = 16

\* C2, as a property of every step that writes to the sink
C2_TraceFields == [][C2_Step]_vars

\* C2 witness: a console Logger wrote a record whose trace_id is the
\* caller's and whose span_id was injected from the current span
C2_Witness ==
    /\ Called
    /\ loggers[last.lg].variant = "console"
    /\ Has(last.kwargs, "trace_id") /\ ~Has(last.kwargs, "span_id")
    /\ \E i \in 1..Len(Written) :
          /\ FieldIs(Written[i], "trace_id", StrV("caller-trace"))
          /\ FieldIs(Written[i], "span_id", StrV("0000000000001234"))

\* C3: the level rendered in every emitted record is the canonical name of
\* the method called, lowercase in JSON mode and uppercase in pretty mode;
\* never a name of the framework's vocabulary.
C3_CanonicalLevel ==
    Called =>
        \A i \in 1..Len(Written) :
            IF Written[i].mode = "json"
            THEN FieldIs(Written[i], "level", StrV(Canonical(last.method)))
            ELSE Written[i].head.level = Upper[Canonical(last.method)]

\* C4: a call made through a Logger X is filtered by X's own minimum level,
\* formatted in X's own mode, tagged with X's service name and written
\* exactly once, whichever other Loggers were constructed before or after
\* (stated for the calls that return normally).
C4_OwnConfiguration ==
    (Called /\ ~last.raised) =>
        LET X == loggers[last.lg] IN
        /\ Len(Written) =
              (IF Severity[last.method] >= Severity[X.level] THEN 1 ELSE 0)
        /\ \A i \in 1..Len(Written) :
              /\ Written[i].mode = (IF X.pretty THEN "pretty" ELSE "json")
              /\ FieldIs(Written[i], "service", StrV(X.service))

\* C5: a call to a level method returns normally, whatever the message and
\* the named fields.
C5_NeverRaises == Called => ~last.raised

\* C9: parsing the JSON line of an emitted record recovers the call's
\* canonical level, its message, the Logger's service name, the event's
\* millisecond timestamp, and every extra field under its own key with its
\* value unchanged (other classes as their string form).
C9_RoundTrip ==
    Called =>
        \A i \in 1..Len(Written) :
            Written[i].mode = "json" =>
                LET d == json_loads(Written[i].doc) IN
                /\ Has(d, "level")
                /\ Get(d, "level") = StrV(Canonical(last.method))
                /\ Has(d, "msg") /\ Get(d, "msg") = StrV(last.msg)
                /\ Has(d, "service")
                /\ Get(d, "service") = StrV(loggers[last.lg].service)
                /\ Has(d, "time") /\ Get(d, "time") = IntV(last.time \div 1000)
                /\ \A k \in Keys(last.kwargs) \ {"error"} :
                      Has(d, k) /\ Get(d, k) = Widen(Get(last.kwargs, k))

----------------------------------------------------------------------------
(* The bridge: one Logger constructed, the host application's own handlers   *)
(* installed on some channels, stdlib defaults elsewhere (root at WARNING)   *)

InitBridge ==
    /\ initialized = FALSE
    /\ otel_service = ""
    /\ endpoint = ""
    /\ span = NoSpan
    /\ \E level \in {"debug", "warn"} :
          /\ loggers = << NewLogger("console", "backend", level, FALSE) >>
          /\ core = << NewHandler(level, FALSE) >>
    /\ sink = <<>>
    /\ last = NoCall
    /\ \E F \in SUBSET {"a", "a.b"} :
          chan = [c \in Channels |->
                     [handlers |-> IF c \in F THEN <<ForeignHandler>> ELSE <<>>,
                      level |-> IF c = "root" THEN 30 ELSE 0,
                      propagate |-> TRUE]]
    /\ ihandlers = <<>>
    /\ named = {}
    /\ rec = NoRec
    /\ IdleThreads

NextBridge ==
    \/ \E i \in 1..MaxLoggers, names \in AttachArgs :
          intercept_stdlib_logging(i, names)
    \/ \E name \in Channels, levelno \in LevelNos, msg \in Msgs,
          now \in Times :
          StdlibLog(name, levelno, msg, "server", now)

SpecBridge == InitBridge /\ [][NextBridge]_vars

\* the channels an attach call named
Named == named

\* a record logged on c would be handed to exactly one handler, an
\* InterceptHandler, and so replayed exactly once
OnceIntercepted(c) ==
    /\ Len(callHandlers(c)) = 1
    /\ callHandlers(c)[1] # ForeignHandler

\* the canonical level and fields the fixed table gives a record
C6_Table(levelno) ==
    IF levelno = 10 THEN "debug"
    ELSE IF levelno = 30 THEN "warn"
    ELSE IF levelno = 40 THEN "error"
    ELSE IF levelno = 50 THEN "fatal"
    ELSE "info"

\* C6: each InterceptHandler a record reaches replays it as exactly one call
\* on its bound Logger, at the level of the fixed table (info for a number
\* outside it), with the record's message and the fields logger_name and
\* module equal to the record's.
C6_ReplayOnce ==
    \A k \in 1..Len(rec.delivered) :
        rec.delivered[k] # ForeignHandler =>
            /\ Len(rec.calls[k]) = 1
            /\ rec.calls[k][1].lg = ihandlers[rec.delivered[k]].truley_logger
            /\ rec.calls[k][1].method = C6_Table(rec.levelno)
            /\ rec.calls[k][1].msg = rec.msg
            /\ rec.calls[k][1].kwargs =
                  << <<"logger_name", StrV(rec.name)>>,
                     <<"module", StrV(rec.module)>> >>

\* C6 witness: a record logged on "a.b" at level 35, a number outside the
\* table, reached one InterceptHandler and was replayed at info
C6_Witness ==
    /\ rec.levelno = 35
    /\ Len(rec.delivered) = 1
    /\ rec.delivered[1] # ForeignHandler
    /\ rec.calls[1][1].method = "info"
    /\ rec.name = "a.b"

\* C7 as stated: every record on a named channel, or on a descendant of one
\* that has no handler of its own, is handed to exactly one InterceptHandler
\* and to no other handler.
C7_Original ==
    \A c \in Channels :
        (c \in Named \/ (Ancestors(c) \cap Named # {} /\ chan[c].handlers = <<>>))
            => OnceIntercepted(c)

\* the channels strictly between c and its nearest named ancestor
RECURSIVE Below(_)
Below(c) ==
    IF c = "root" \/ Parent[c] \in Named THEN {}
    ELSE {Parent[c]} \cup Below(Parent[c])

\* C7 amended: every record on a named channel, or on a descendant of one
\* such that neither the descendant nor any channel between it and its
\* nearest named ancestor has a handler of its own, is handed to exactly one
\* InterceptHandler and to no other handler.
C7_Amended ==
    \A c \in Channels :
        (\/ c \in Named
         \/ /\ Ancestors(c) \cap Named # {}
            /\ \A b \in {c} \cup Below(c) : chan[b].handlers = <<>>)
            => OnceIntercepted(c)

\* C7 witness: after two attach calls, root first and then "a", where the
\* host had a handler of its own on "a", a record logged on the descendant
\* "a.b.c" was handed to the one InterceptHandler of "a"
C7_Witness ==
    /\ Len(ihandlers) = 2
    /\ chan["root"].handlers = <<1>>
    /\ chan["a"].handlers = <<2>>
    /\ rec.name = "a.b.c"
    /\ rec.delivered = <<2>>
    /\ rec.delivered = callHandlers("a.b.c")
    /\ Len(rec.calls[1]) = 1

\* the stdlib number of each canonical level a replay can use
StdNo == [debug |-> 10, info |-> 20, warn |-> 30, error |-> 40, fatal |-> 50]

Dist(x, y) == IF x >= y THEN x - y ELSE y - x

\* C8: a record whose level number is none of 10, 20, 30, 40, 50 is replayed
\* at the canonical level nearest to its severity.
C8_NearestLevel ==
    \A k \in 1..Len(rec.delivered) :
        (rec.delivered[k] # ForeignHandler /\ rec.levelno \notin {10, 20, 30, 40, 50})
            => \A m \in DOMAIN StdNo :
                  Dist(StdNo[rec.calls[k][1].method], rec.levelno)
                      <= Dist(StdNo[m], rec.levelno)

----------------------------------------------------------------------------
(* Threads sharing one Logger *)

InitThreads ==
    /\ initialized = FALSE
    /\ otel_service = ""
    /\ endpoint = ""
    /\ span = NoSpan
    /\ \E pretty \in BOOLEAN :
          /\ loggers = << NewLogger("console", "backend", "info", pretty) >>
          /\ core = << NewHandler("info", pretty) >>
    /\ sink = <<>>
    /\ last = NoCall
    /\ IdleBridge
    /\ thr = [t \in Threads |-> IdleThread]
    /\ lock = 0

NextThreads ==
    \E t \in Threads :
        \/ \E method \in {"debug", "warn", "fatal"}, kwargs \in KwPlain,
              now \in Times : Enter(t, method, kwargs, now)
        \/ Drop(t)
        \/ Acquire(t)
        \/ Write(t)
        \/ Release(t)

SpecThreads == InitThreads /\ [][NextThreads]_vars

\* the message a written record carries
MsgOf(w) ==
    IF w.mode = "json" THEN Get(json_loads(w.doc), "msg").s ELSE w.head.msg

\* thread t's call is one that writes a record: it did not raise and its
\* severity reaches the Logger's minimum level
Passes(t) ==
    /\ ~thr[t].raised
    /\ Severity[thr[t].method] >= Severity[loggers[1].level]

====
